---- MODULE Spec2Model ----
(***************************************************************************)
(* Model of the prometheus input plugin (plugins/inputs/prometheus):       *)
(* target resolution (GetAllURLs), the fan-out scrape cycle (Gather,       *)
(* gatherURL) and the discovery lifecycle (Start, Stop).                   *)
(*                                                                         *)
(* URL texts are sequences of lexical tokens ("http", "://", "user:pass",  *)
(* "@", "h1", ":", "9100", "/metrics", "?", "q=1"); url.Parse and          *)
(* URL.String are operators over such sequences.  *url.URL values live in  *)
(* a heap so that two targets can share one URL object, as pointers do.    *)
(***************************************************************************)
EXTENDS Integers, Sequences, FiniteSets, TLC

\* ------------------------------------------------------------------ bounds
MaxStatic == 2
MaxServices == 3
MaxAddrs == 2
MaxPods == 1
MaxTasks == 2

\* ------------------------------------------------------------ URL lexemes
Schemes == {"http", "unix"}
UserTokens == {"user:pass"}
AddrList == <<"10.0.0.1", "10.0.0.2", "10.0.0.3">>
Addresses == {AddrList[i] : i \in 1..Len(AddrList)}
HostTokens == {"h1", "h2", "svc1", "svc2", "localhost"} \cup Addresses
PortTokens == {"9100"}
PathTokens == {"/metrics", "/m", "/sock", "/stats"}
BadEscape == "/%zz"
SlashTokens == PathTokens \cup {BadEscape}

NilURL == [ok |-> FALSE]

\* index of the first occurrence of t in s, 0 when absent
IndexOf(s, t) ==
  IF \E i \in 1..Len(s) : s[i] = t
  THEN CHOOSE i \in 1..Len(s) : s[i] = t /\ \A j \in 1..(i - 1) : s[j] # t
  ELSE 0

\* index of the last occurrence of t in s, 0 when absent
LastIndexOf(s, t) ==
  IF \E i \in 1..Len(s) : s[i] = t
  THEN CHOOSE i \in 1..Len(s) : s[i] = t /\ \A j \in (i + 1)..Len(s) : s[j] # t
  ELSE 0

\* index of the first token that opens the path, Len(s)+1 when there is none
PathStart(s) ==
  IF \E i \in 1..Len(s) : s[i] \in SlashTokens
  THEN CHOOSE i \in 1..Len(s) : s[i] \in SlashTokens /\ \A j \in 1..(i - 1) : s[j] \notin SlashTokens
  ELSE Len(s) + 1

\* host[:port] as net/url accepts it
ValidHost(h) ==
  \/ h = <<>>
  \/ Len(h) = 1 /\ h[1] \in HostTokens
  \/ Len(h) = 3 /\ h[1] \in HostTokens /\ h[2] = ":" /\ h[3] \in PortTokens

ValidPath(p) == \A i \in 1..Len(p) : p[i] \in PathTokens

\* url.Parse: [scheme "://"] [userinfo "@"] host [":" port] path ["?" query].
\* The query is split off first and kept raw; the authority runs up to the
\* first "/"; an invalid escape or an invalid host character is an error.
URLParse(s) ==
  LET q == IndexOf(s, "?")
      rest == IF q = 0 THEN s ELSE SubSeq(s, 1, q - 1)
      rawq == IF q = 0 THEN <<>> ELSE SubSeq(s, q + 1, Len(s))
      hasScheme == Len(rest) >= 2 /\ rest[2] = "://"
      after == IF hasScheme THEN SubSeq(rest, 3, Len(rest)) ELSE rest
      ps == PathStart(after)
      auth == IF hasScheme THEN SubSeq(after, 1, ps - 1) ELSE <<>>
      path == IF hasScheme THEN SubSeq(after, ps, Len(after)) ELSE after
      at == LastIndexOf(auth, "@")
      user == IF at = 0 THEN <<>> ELSE SubSeq(auth, 1, at - 1)
      host == IF at = 0 THEN auth ELSE SubSeq(auth, at + 1, Len(auth))
      good == /\ hasScheme => rest[1] \in Schemes
              /\ at # 0 => (Len(user) = 1 /\ user[1] \in UserTokens)
              /\ ValidHost(host)
              /\ ValidPath(path)
  IN IF good
     THEN [ok |-> TRUE,
           Scheme |-> IF hasScheme THEN rest[1] ELSE "",
           User |-> IF at = 0 THEN "" ELSE user[1],
           Host |-> host,
           Path |-> path,
           RawQuery |-> rawq]
     ELSE NilURL

\* URL.String
URLString(u) ==
  (IF u.Scheme # "" THEN <<u.Scheme, "://">> ELSE <<>>)
    \o (IF u.User # "" THEN <<u.User, "@">> ELSE <<>>)
    \o u.Host
    \o u.Path
    \o (IF u.RawQuery # <<>> THEN <<"?">> \o u.RawQuery ELSE <<>>)

\* URL.Hostname and URL.Port
Hostname(u) == IF u.Host = <<>> THEN "" ELSE u.Host[1]
Port(u) == IF Len(u.Host) = 3 THEN u.Host[3] ELSE ""

\* URL.Query().Get("path")
QueryGetPath(u) ==
  IF u.RawQuery = <<"path=/stats">> THEN <<"/stats">>
  ELSE IF u.RawQuery = <<"path=%20x">> THEN <<" x">>
  ELSE <<>>

\* AddressToURL with the port dropped (mutation of AddressToURL)
AddressToURLNoPort(u, address) == [u EXCEPT !.Host = <<address>>]

\* Prometheus.AddressToURL
AddressToURL(u, address) ==
  LET host == IF Port(u) # "" THEN <<address, ":", Port(u)>> ELSE <<address>>
  IN [ok |-> TRUE,
      Scheme |-> u.Scheme,
      User |-> u.User,
      Path |-> u.Path,
      RawQuery |-> u.RawQuery,
      Host |-> host]

\* ------------------------------------------------------------ configuration
StaticCred == <<"http", "://", "user:pass", "@", "h1", ":", "9100">>
StaticBad == <<"http", "://", "h1", "/%zz">>
StaticUnix == <<"unix", "://", "/sock", "?", "path=/stats">>
StaticUnixBadPath == <<"unix", "://", "/sock", "?", "path=%20x">>
SvcA == <<"http", "://", "user:pass", "@", "svc1", ":", "9100", "/m", "?", "q=1">>
SvcB == <<"http", "://", "svc2">>
SvcBad == <<"http", "://", "%zz">>
ServiceHosts == {"svc1", "svc2"}

SeqsUpTo(S, n) == UNION {[1..k -> S] : k \in 0..n}

\* what net.LookupHost can answer: an error, or 0..MaxAddrs addresses
LookupError == [err |-> TRUE, addrs |-> <<>>]
Answers ==
  {LookupError} \cup {[err |-> FALSE, addrs |-> SubSeq(AddrList, 1, k)] : k \in 0..MaxAddrs}

EmptyTags == [k \in {} |-> <<>>]

\* the endpoint+tag tuples the discovery watcher can register
PodAddress == "10.0.0.3"
PodURL == [ok |-> TRUE, Scheme |-> "http", User |-> "", Host |-> <<PodAddress, ":", "9100">>,
           Path |-> <<>>, RawQuery |-> <<>>]
PodTagSets ==
  {("pod_name" :> <<"p1">>),
   ("pod_name" :> <<"p1">>) @@ ("url" :> <<"label">>) @@ ("address" :> <<"label">>)}

\* what the exposition parser can return for a body
Metric(name, kind, tags) == [name |-> name, kind |-> kind, tags |-> tags]
Bodies ==
  {<<Metric("requests", "Counter", ("url" :> <<"parsed">>))>>,
   <<Metric("temp", "Gauge", ("pod_name" :> <<"parsed">>)), Metric("lat", "Summary", EmptyTags)>>,
   <<Metric("size", "Histogram", EmptyTags), Metric("up", "Untyped", EmptyTags)>>}

StatusOK == 200
StatusCodes == {StatusOK, 204, 500}

\* ------------------------------------------------------------------- state
VARIABLES
  URLs,               \* Prometheus.URLs
  KubernetesServices, \* Prometheus.KubernetesServices
  MonitorPods,        \* Prometheus.MonitorPods
  BearerToken,        \* Prometheus.BearerToken ("" when not configured)
  TLSConfigOK,        \* whether ClientConfig.TLSConfig() succeeds
  dns,                \* the answers of net.LookupHost, per hostname
  client,             \* Prometheus.client # nil
  cancel,             \* Prometheus.cancel: "nil", "set", "cancelled"
  lock,               \* Prometheus.lock: "free" or its holder
  kubernetesPods,     \* Prometheus.kubernetesPods
  wg,                 \* Prometheus.wg counter
  watcher,            \* the discovery goroutine: "none", "running", "exited"
  heap,               \* the *url.URL objects, by identity
  pc,                 \* position of the caller's goroutine
  frame,              \* which call is on the caller's stack
  allURLs,            \* the allURLs slice of GetAllURLs / Gather
  svcIdx,             \* loop index over KubernetesServices
  resolveErr,         \* what the last GetAllURLs returned as error
  gatherRet,          \* what the last Gather returned
  tasks,              \* the scrape goroutines of the current cycle
  gwg,                \* the WaitGroup local to Gather
  accMetrics,         \* accumulator: Add<Kind> calls of the current cycle
  accErrors,          \* accumulator: non-nil AddError calls of the current cycle
  panic,              \* "none"; "unwinding" while a panicking goroutine has run its
                      \* deferred calls and the runtime has not yet ended the
                      \* process; or the function whose panic ended the process
  results,            \* what a direct caller of GetAllURLs has kept of an earlier call
  podsSeen,           \* the dynamic targets the direct call in progress has copied
  clientsBuilt        \* how many http.Clients createHTTPClient has returned to Gather

config == <<URLs, KubernetesServices, MonitorPods, BearerToken, TLSConfigOK, dns>>
plugin == <<client, cancel, lock, kubernetesPods, wg, watcher>>
resolver == <<allURLs, svcIdx, resolveErr>>
fanout == <<tasks, gwg, accMetrics, accErrors>>
observed == <<results, podsSeen, clientsBuilt>>
vars == <<config, plugin, heap, pc, frame, resolver, gatherRet, fanout, panic, observed>>

StaticId(i) == <<"static", i, 0>>
SvcId(j) == <<"svc", j, 0>>
SvcAddrId(j, a) == <<"svc", j, a>>
PodOrigId(k) == <<"pod", k, 0>>
PodURLId(k) == <<"pod", k, 1>>
IsPodId(id) == id[1] = "pod"

Restrict(f, S) == [x \in (DOMAIN f) \cap S |-> f[x]]
PodObjects == Restrict(heap, {id \in DOMAIN heap : IsPodId(id)})

\* a target as its caller reads it: the URL objects behind its pointers
TargetValue(t) ==
  [URL |-> heap[t.URL], OriginalURL |-> heap[t.OriginalURL], Address |-> t.Address,
   Tags |-> t.Tags]
TargetValues(ts) == [n \in 1..Len(ts) |-> TargetValue(ts[n])]

\* the process is running (no goroutine has panicked)
Alive == panic \in {"none", "unwinding"}

\* net.LookupHost
LookupHost(h) == IF h \in DOMAIN dns THEN dns[h] ELSE LookupError

InitState ==
  /\ client = FALSE
  /\ cancel = "nil"
  /\ lock = "free"
  /\ kubernetesPods = <<>>
  /\ wg = 0
  /\ watcher = "none"
  /\ heap = [x \in {} |-> NilURL]
  /\ pc = "idle"
  /\ frame = "none"
  /\ allURLs = <<>>
  /\ svcIdx = 0
  /\ resolveErr = "none"
  /\ gatherRet = "none"
  /\ tasks = <<>>
  /\ gwg = 0
  /\ accMetrics = {}
  /\ accErrors = {}
  /\ panic = "none"
  /\ results = <<>>
  /\ podsSeen = <<>>
  /\ clientsBuilt = 0

\* the list of the previous call used again (mutation of MakeURLs)
MakeURLsReused == allURLs

\* allURLs := make([]URLAndAddress, 0)
MakeURLs == <<>>

\* a new call forgets the previous cycle's locals; the URL objects of the
\* previous cycle are unreachable (only the pods' objects stay referenced)
NewCycle ==
  /\ allURLs' = MakeURLs
  /\ svcIdx' = 0
  /\ resolveErr' = "none"
  /\ tasks' = <<>>
  /\ gwg' = 0
  /\ accMetrics' = {}
  /\ accErrors' = {}
  /\ heap' = PodObjects

\* ---------------------------------------------------------------- resolver
\* GetAllURLs, static loop, stopping at the first unparsable URL
\* (mutation of StaticIndexes)
StaticIndexesBreak(urls) ==
  LET firstBad == IF \E i \in 1..Len(urls) : ~URLParse(urls[i]).ok
                  THEN CHOOSE i \in 1..Len(urls) :
                         ~URLParse(urls[i]).ok /\ \A j \in 1..(i - 1) : URLParse(urls[j]).ok
                  ELSE Len(urls) + 1
  IN [i \in 1..(firstBad - 1) |-> i]

\* GetAllURLs, static loop: the indexes of p.URLs that parse, in order
StaticIndexes(urls) ==
  SelectSeq([i \in 1..Len(urls) |-> i], LAMBDA i : URLParse(urls[i]).ok)

StaticTarget(i) ==
  [URL |-> StaticId(i), OriginalURL |-> StaticId(i), Address |-> "", Tags |-> EmptyTags]

\* GetAllURLs up to the lock: one target per parsable static URL
ResolveStatic ==
  /\ Alive
  /\ pc = "static"
  /\ LET idx == StaticIndexes(URLs)
     IN /\ allURLs' = allURLs \o [n \in 1..Len(idx) |-> StaticTarget(idx[n])]
        /\ heap' = [id \in {StaticId(idx[n]) : n \in 1..Len(idx)} |-> URLParse(URLs[id[2]])]
                     @@ heap
  /\ pc' = "lock"
  /\ UNCHANGED <<config, observed, plugin, frame, svcIdx, resolveErr, gatherRet, fanout, panic>>

\* p.lock.Lock() and the copy of p.kubernetesPods
ResolveLock ==
  /\ Alive
  /\ pc = "lock"
  /\ lock = "free"
  /\ lock' = "resolver"
  /\ allURLs' = allURLs \o kubernetesPods
  /\ podsSeen' = IF frame = "GetAllURLs" THEN TargetValues(kubernetesPods) ELSE podsSeen
  /\ svcIdx' = 1
  /\ pc' = "services"
  /\ UNCHANGED <<config, results, clientsBuilt, client, cancel, kubernetesPods, wg, watcher,
                 heap, frame, resolveErr, gatherRet, fanout, panic>>

\* the lock released only on the normal return (mutation of LockAfterReturn)
LockAfterReturnLeak(err) == IF err # "nil" THEN "resolver" ELSE "free"

\* defer p.lock.Unlock(): the lock after any return of GetAllURLs
LockAfterReturn(err) == "free"

\* Gather going on after a failed resolution (mutation of ResolveFailed)
ResolveFailedIgnored(err) == FALSE

\* Gather: `if err != nil { return err }` after GetAllURLs
ResolveFailed(err) == err # "nil"

\* the return of GetAllURLs (the deferred Unlock runs) into its caller
ReturnFromGetAllURLs(urls, err) ==
  /\ lock' = LockAfterReturn(err)
  /\ allURLs' = urls
  /\ resolveErr' = err
  /\ IF frame = "Gather"
     THEN /\ IF ResolveFailed(err)
             THEN /\ pc' = "idle"
                  /\ frame' = "none"
                  /\ gatherRet' = err
             ELSE /\ pc' = "spawn"
                  /\ UNCHANGED <<frame, gatherRet>>
     ELSE /\ pc' = "idle"
          /\ frame' = "none"
          /\ UNCHANGED gatherRet

ServiceTargets(j, addrs) ==
  [n \in 1..Len(addrs) |->
     [URL |-> SvcAddrId(j, n), OriginalURL |-> SvcId(j), Address |-> addrs[n],
      Tags |-> EmptyTags]]

\* the service loop with a lookup error dropping what was collected
\* (mutation of AfterLookup)
AfterLookupAbort(all, j, answer) ==
  IF answer.err THEN <<>> ELSE all \o ServiceTargets(j, answer.addrs)

\* GetAllURLs, the service loop after net.LookupHost returned
AfterLookup(all, j, answer) ==
  IF answer.err THEN all ELSE all \o ServiceTargets(j, answer.addrs)

\* one iteration head of the service loop: url.Parse, then the lookup starts
ResolveService ==
  /\ Alive
  /\ pc = "services"
  /\ IF svcIdx > Len(KubernetesServices)
     THEN /\ ReturnFromGetAllURLs(allURLs, "nil")
          /\ UNCHANGED <<heap, svcIdx>>
     ELSE LET u == URLParse(KubernetesServices[svcIdx])
          IN IF ~u.ok
             THEN /\ ReturnFromGetAllURLs(<<>>, "parse")
                  /\ UNCHANGED <<heap, svcIdx>>
             ELSE /\ heap' = (SvcId(svcIdx) :> u) @@ heap
                  /\ pc' = "dns"
                  /\ UNCHANGED <<lock, allURLs, resolveErr, frame, gatherRet, svcIdx>>
  /\ UNCHANGED <<config, observed, client, cancel, kubernetesPods, wg, watcher, fanout, panic>>

\* net.LookupHost returns; one target per resolved address
ResolveLookup ==
  /\ Alive
  /\ pc = "dns"
  /\ LET u == heap[SvcId(svcIdx)]
         answer == LookupHost(Hostname(u))
     IN /\ allURLs' = AfterLookup(allURLs, svcIdx, answer)
        /\ heap' = IF answer.err
                   THEN heap
                   ELSE [id \in {SvcAddrId(svcIdx, n) : n \in 1..Len(answer.addrs)} |->
                           AddressToURL(u, answer.addrs[id[3]])] @@ heap
  /\ svcIdx' = svcIdx + 1
  /\ pc' = "services"
  /\ UNCHANGED <<config, observed, plugin, frame, resolveErr, gatherRet, fanout, panic>>

\* a direct call of the exported GetAllURLs
CallGetAllURLs ==
  /\ Alive
  /\ pc = "idle"
  /\ NewCycle
  /\ frame' = "GetAllURLs"
  /\ pc' = "static"
  /\ UNCHANGED <<config, observed, plugin, gatherRet, panic>>

\* what the last call of GetAllURLs returned, read through its pointers
LastResult == [err |-> resolveErr, urls |-> TargetValues(allURLs), pods |-> podsSeen]

\* a caller keeps what a direct call returned and calls GetAllURLs again
CallGetAllURLsAgain ==
  /\ Alive
  /\ pc = "idle"
  /\ resolveErr # "none"
  /\ results' = <<LastResult>>
  /\ NewCycle
  /\ frame' = "GetAllURLs"
  /\ pc' = "static"
  /\ UNCHANGED <<config, podsSeen, clientsBuilt, plugin, gatherRet, panic>>

\* --------------------------------------------------------------- lifecycle
\* Start: with MonitorPods, stores the cancel function and launches the watcher
StartCall ==
  /\ Alive
  /\ pc = "idle"
  /\ watcher = "none"
  /\ IF MonitorPods
     THEN /\ cancel' = "set"
          /\ wg' = wg + 1
          /\ watcher' = "running"
     ELSE UNCHANGED <<cancel, wg, watcher>>
  /\ UNCHANGED <<config, observed, client, lock, kubernetesPods, heap, pc, frame, resolver,
                 gatherRet, fanout, panic>>

\* the watcher takes p.lock to register a discovered pod
WatcherLock ==
  /\ Alive
  /\ watcher = "running"
  /\ cancel = "set"
  /\ lock = "free"
  /\ Len(kubernetesPods) < MaxPods
  /\ lock' = "watcher"
  /\ UNCHANGED <<config, observed, client, cancel, kubernetesPods, wg, watcher, heap, pc, frame,
                 resolver, gatherRet, fanout, panic>>

\* the watcher appends the pod's target and releases p.lock
WatcherRegister ==
  /\ Alive
  /\ lock = "watcher"
  /\ \E tags \in PodTagSets :
       LET k == Len(kubernetesPods) + 1
       IN /\ kubernetesPods' = Append(kubernetesPods,
               [URL |-> PodURLId(k), OriginalURL |-> PodOrigId(k), Address |-> PodAddress,
                Tags |-> tags])
          /\ heap' = (PodURLId(k) :> PodURL) @@ (PodOrigId(k) :> PodURL) @@ heap
  /\ lock' = "free"
  /\ UNCHANGED <<config, observed, client, cancel, wg, watcher, pc, frame, resolver, gatherRet, fanout, panic>>

\* the watcher observes the cancellation and exits
WatcherExit ==
  /\ Alive
  /\ watcher = "running"
  /\ cancel = "cancelled"
  /\ lock # "watcher"
  /\ watcher' = "exited"
  /\ wg' = wg - 1
  /\ UNCHANGED <<config, observed, client, cancel, lock, kubernetesPods, heap, pc, frame, resolver,
                 gatherRet, fanout, panic>>

\* Stop: p.cancel() -- calling a nil func panics
StopCancel(c) ==
  IF c = "nil" THEN [cancel |-> c, pc |-> "idle", panic |-> "Stop"]
  ELSE [cancel |-> "cancelled", pc |-> "stopping", panic |-> "none"]

StopCall ==
  /\ Alive
  /\ pc = "idle"
  /\ cancel' = StopCancel(cancel).cancel
  /\ pc' = StopCancel(cancel).pc
  /\ panic' = IF StopCancel(cancel).panic = "none" THEN panic ELSE StopCancel(cancel).panic
  /\ UNCHANGED <<config, observed, client, lock, kubernetesPods, wg, watcher, heap, frame, resolver,
                 gatherRet, fanout>>

\* Stop returning without the wait (mutation of StopWait)
StopWaitSkipped(n) == TRUE

\* Stop: p.wg.Wait() returns when the counter is zero
StopWait(n) == n = 0

\* Stop: p.wg.Wait() returns
StopReturn ==
  /\ Alive
  /\ pc = "stopping"
  /\ StopWait(wg)
  /\ pc' = "idle"
  /\ UNCHANGED <<config, observed, plugin, heap, frame, resolver, gatherRet, fanout, panic>>

\* ------------------------------------------------------------------ Gather
\* createHTTPClient with the TLS error ignored (mutation of CreateHTTPClient)
CreateHTTPClientIgnoreErr == [client |-> TRUE, err |-> FALSE]

\* createHTTPClient: the client, or the error of ClientConfig.TLSConfig()
CreateHTTPClient == [client |-> TLSConfigOK, err |-> ~TLSConfigOK]

\* the TLS files that ClientConfig.TLSConfig() could not load are put right
\* between two cycles
RepairTLS ==
  /\ Alive
  /\ pc = "idle"
  /\ ~TLSConfigOK
  /\ TLSConfigOK' = TRUE
  /\ UNCHANGED <<URLs, KubernetesServices, MonitorPods, BearerToken, dns, observed, plugin,
                 heap, pc, frame, resolver, gatherRet, fanout, panic>>

\* the client built in every cycle (mutation of NeedsClient)
NeedsClientAlways(c) == TRUE

\* Gather: `if p.client == nil`
NeedsClient(c) == c = FALSE

\* Gather up to the call of GetAllURLs: the client is built when absent
GatherBegin ==
  /\ Alive
  /\ pc = "idle"
  /\ NewCycle
  /\ IF ~NeedsClient(client)
     THEN /\ frame' = "Gather"
          /\ pc' = "static"
          /\ gatherRet' = "none"
          /\ UNCHANGED <<client, clientsBuilt>>
     ELSE IF CreateHTTPClient.err
          THEN /\ gatherRet' = "tls"
               /\ UNCHANGED <<client, clientsBuilt, pc, frame>>
          ELSE /\ client' = CreateHTTPClient.client
               /\ clientsBuilt' = clientsBuilt + 1
               /\ frame' = "Gather"
               /\ pc' = "static"
               /\ gatherRet' = "none"
  /\ UNCHANGED <<config, results, podsSeen, cancel, lock, kubernetesPods, wg, watcher, panic>>

\* the errors gatherURL returns, with the URL text their message carries
NoError == [kind |-> "nil", url |-> <<>>, status |-> 0]
ErrToken == [kind |-> "token", url |-> <<>>, status |-> 0]
ErrRequest(u) == [kind |-> "request", url |-> URLString(u), status |-> 0]
ErrStatus(u, s) == [kind |-> "status", url |-> URLString(u), status |-> s]
ErrBody == [kind |-> "body", url |-> <<>>, status |-> 0]
ErrParse(u) == [kind |-> "parse", url |-> URLString(u), status |-> 0]

\* one `go func(serviceURL URLAndAddress)` of the spawn loop, after wg.Add(1)
\* `status` is the status code of the response the task received (0: none)
NewTask(u) ==
  [st |-> "running", u |-> u, err |-> NoError, body |-> <<>>, k |-> 0, status |-> 0]

GatherSpawn ==
  /\ Alive
  /\ pc = "spawn"
  /\ Len(tasks) < Len(allURLs)
  /\ tasks' = Append(tasks, NewTask(allURLs[Len(tasks) + 1]))
  /\ gwg' = gwg + 1
  /\ UNCHANGED <<config, observed, plugin, heap, pc, frame, resolver, gatherRet, accMetrics,
                 accErrors, panic>>

\* wg.Wait() that does not wait (mutation of WaitDone)
WaitDoneNoWait(n) == TRUE

\* wg.Wait() returns when the counter is zero
WaitDone(n) == n = 0

\* Gather returning the first scrape error (mutation of GatherResult)
GatherResultScrapeError == IF accErrors # {} THEN "scrape" ELSE "nil"

\* the value Gather returns after the barrier
GatherResult == "nil"

\* the spawn loop is over, wg.Wait() returns and Gather returns
GatherReturn ==
  /\ Alive
  /\ pc = "spawn"
  /\ Len(tasks) = Len(allURLs)
  /\ WaitDone(gwg)
  /\ gatherRet' = GatherResult
  /\ pc' = "idle"
  /\ frame' = "none"
  /\ UNCHANGED <<config, observed, plugin, heap, resolver, fanout, panic>>

\* --------------------------------------------------------------- gatherURL
DefaultPath(u) == IF u.Path = <<>> THEN [u EXCEPT !.Path = <<"/metrics">>] ELSE u

\* the URL text handed to http.NewRequest
RequestText(u) ==
  IF u.Scheme = "unix"
  THEN <<"http", "://", "localhost">>
         \o (IF QueryGetPath(u) = <<>> THEN <<"/metrics">> ELSE QueryGetPath(u))
  ELSE URLString(DefaultPath(u))

\* http.NewRequest fails exactly when its URL text does not parse
NewRequestOK(text) == URLParse(text).ok

\* what the network and the parser can answer to one request
Response(net, status, read, parse, body) ==
  [net |-> net, status |-> status, read |-> read, parse |-> parse, body |-> body]
SomeBody == CHOOSE b \in Bodies : Len(b) = 1
Responses ==
  {Response("error", 0, FALSE, FALSE, <<>>)}
    \cup {Response("ok", s, TRUE, TRUE, SomeBody) : s \in StatusCodes \ {StatusOK}}
    \cup {Response("ok", StatusOK, FALSE, FALSE, <<>>)}
    \cup {Response("ok", StatusOK, TRUE, FALSE, <<>>)}
    \cup {Response("ok", StatusOK, TRUE, TRUE, b) : b \in Bodies}

\* every status from 200 to 299 accepted (mutation of ScrapeError)
ScrapeErrorAny2xx(u, tokenOK, resp) ==
  IF BearerToken # "" /\ ~tokenOK THEN ErrToken
  ELSE IF resp.net = "error" THEN ErrRequest(u)
  ELSE IF resp.status \notin 200..299 THEN ErrStatus(u, resp.status)
  ELSE IF ~resp.read THEN ErrBody
  ELSE IF ~resp.parse THEN ErrParse(u)
  ELSE NoError

\* gatherURL from the token read to the parse: the error it returns
ScrapeError(u, tokenOK, resp) ==
  IF BearerToken # "" /\ ~tokenOK THEN ErrToken
  ELSE IF resp.net = "error" THEN ErrRequest(u)
  ELSE IF resp.status # StatusOK THEN ErrStatus(u, resp.status)
  ELSE IF ~resp.read THEN ErrBody
  ELSE IF ~resp.parse THEN ErrParse(u)
  ELSE NoError

\* acc.AddError: a nil error is ignored
AddError(errs, i, err) ==
  IF err.kind = "nil" THEN errs ELSE errs \cup {[task |-> i, err |-> err]}

\* gatherURL up to req.Header.Add: the path default is written through
\* u.URL, the request is built and the task goes on to its blocking calls.
\* When http.NewRequest failed req is nil and req.Header.Add panics: the
\* deferred wg.Done of the goroutine runs while the panic unwinds; the
\* runtime ends the process afterwards (ProcessExit), and until then the
\* other goroutines go on.
TaskRequest(i) ==
  /\ Alive
  /\ tasks[i].st = "running"
  /\ LET t == tasks[i]
         u == heap[t.u.URL]
         du == IF u.Scheme = "unix" THEN u ELSE DefaultPath(u)
     IN /\ heap' = [heap EXCEPT ![t.u.URL] = du]
        /\ IF ~NewRequestOK(RequestText(u))
           THEN /\ panic' = "unwinding"
                /\ tasks' = [tasks EXCEPT ![i].st = "panicked"]
                /\ gwg' = gwg - 1
           ELSE /\ tasks' = [tasks EXCEPT ![i].st = "requested"]
                /\ UNCHANGED <<panic, gwg>>
  /\ UNCHANGED <<config, observed, plugin, pc, frame, resolver, gatherRet, accMetrics,
                 accErrors>>

\* the runtime ends the process after the panic of a gatherURL goroutine
ProcessExit ==
  /\ panic = "unwinding"
  /\ panic' = "gatherURL"
  /\ UNCHANGED <<config, observed, plugin, heap, pc, frame, resolver, gatherRet, fanout>>

\* gatherURL after its blocking calls (the token read, client.Do, the body
\* read) up to the parse of the response.  An error return runs on into
\* acc.AddError and the deferred wg.Done.
TaskResponse(i) ==
  /\ Alive
  /\ tasks[i].st = "requested"
  /\ \E tokenOK \in BOOLEAN, resp \in Responses :
       LET err == ScrapeError(heap[tasks[i].u.URL], tokenOK, resp)
           s == IF err.kind \in {"token", "request"} THEN 0 ELSE resp.status
       IN IF err.kind # "nil"
          THEN /\ tasks' = [tasks EXCEPT ![i].st = "done", ![i].err = err,
                                         ![i].status = s]
               /\ accErrors' = AddError(accErrors, i, err)
               /\ gwg' = gwg - 1
          ELSE /\ tasks' = [tasks EXCEPT ![i].st = "forwarding",
                                         ![i].body = resp.body,
                                         ![i].status = s]
               /\ UNCHANGED <<accErrors, gwg>>
  /\ UNCHANGED <<config, observed, plugin, heap, pc, frame, resolver, gatherRet, accMetrics,
                 panic>>

\* u.OriginalURL.User = nil
StripUser(u) == [u EXCEPT !.User = ""]

\* the reserved tags written after the target's Tags (mutation of
\* NormalizeTags)
NormalizeTagsReservedWin(mtags, orig, address, extra) ==
  LET t1 == extra @@ mtags
      t2 == ("url" :> URLString(orig)) @@ t1
  IN IF address # "" THEN ("address" :> <<address>>) @@ t2 ELSE t2

\* the tags of one forwarded metric: url, address, then the target's Tags
NormalizeTags(mtags, orig, address, extra) ==
  LET t1 == ("url" :> URLString(orig)) @@ mtags
      t2 == IF address # "" THEN ("address" :> <<address>>) @@ t1 ELSE t1
  IN extra @@ t2

\* every metric sent to the untyped sink (mutation of SinkFor)
SinkForFields(kind) == "AddFields"

\* the accumulator sink of a metric kind
SinkFor(kind) ==
  CASE kind = "Counter" -> "AddCounter"
    [] kind = "Gauge" -> "AddGauge"
    [] kind = "Summary" -> "AddSummary"
    [] kind = "Histogram" -> "AddHistogram"
    [] OTHER -> "AddFields"

\* one iteration of the loop over the parsed metrics
TaskForward(i) ==
  /\ Alive
  /\ tasks[i].st = "forwarding"
  /\ tasks[i].k < Len(tasks[i].body)
  /\ LET t == tasks[i]
         m == t.body[t.k + 1]
         orig == StripUser(heap[t.u.OriginalURL])
     IN /\ heap' = [heap EXCEPT ![t.u.OriginalURL] = orig]
        /\ accMetrics' = accMetrics \cup
             {[task |-> i, k |-> t.k + 1, sink |-> SinkFor(m.kind), name |-> m.name,
               tags |-> NormalizeTags(m.tags, orig, t.u.Address, t.u.Tags)]}
        /\ tasks' = [tasks EXCEPT ![i].k = t.k + 1]
  /\ UNCHANGED <<config, observed, plugin, pc, frame, resolver, gatherRet, gwg, accErrors, panic>>

\* gatherURL returns nil: acc.AddError(nil) and wg.Done
TaskReturn(i) ==
  /\ Alive
  /\ tasks[i].st = "forwarding"
  /\ tasks[i].k = Len(tasks[i].body)
  /\ tasks' = [tasks EXCEPT ![i].st = "done"]
  /\ accErrors' = AddError(accErrors, i, NoError)
  /\ gwg' = gwg - 1
  /\ UNCHANGED <<config, observed, plugin, heap, pc, frame, resolver, gatherRet, accMetrics, panic>>

\* ---------------------------------------------------------- specifications
\* the number of targets a configuration can resolve to
ServiceCount(svcs, d) ==
  LET n[j \in 0..Len(svcs)] ==
        IF j = 0 THEN 0
        ELSE n[j - 1] + (LET u == URLParse(svcs[j])
                         IN IF u.ok /\ Hostname(u) \in DOMAIN d
                            THEN Len(d[Hostname(u)].addrs) ELSE 0)
  IN n[Len(svcs)]

\* the hostnames the configured services look up; the answers for any other
\* hostname are never read and are fixed to an error
UsedHosts(svcs) ==
  {Hostname(URLParse(svcs[j])) : j \in {j \in 1..Len(svcs) : URLParse(svcs[j]).ok}}
CanonicalDNS(svcs, d) == \A h \in DOMAIN d : h \notin UsedHosts(svcs) => d[h] = LookupError

\* the scrape cycle and the discovery lifecycle
Init ==
  /\ URLs \in SeqsUpTo({StaticCred, StaticUnix, StaticUnixBadPath}, MaxStatic)
  /\ KubernetesServices \in {<<>>, <<SvcA>>, <<SvcBad>>}
  /\ MonitorPods \in BOOLEAN
  /\ BearerToken \in {"", "/token"}
  /\ TLSConfigOK \in BOOLEAN
  /\ dns \in [{"svc1"} -> Answers]
  /\ CanonicalDNS(KubernetesServices, dns)
  /\ Len(URLs) + ServiceCount(KubernetesServices, dns)
       + (IF MonitorPods THEN MaxPods ELSE 0) <= MaxTasks
  /\ InitState

Next ==
  \/ StartCall
  \/ StopCall
  \/ StopReturn
  \/ WatcherLock
  \/ WatcherRegister
  \/ WatcherExit
  \/ RepairTLS
  \/ GatherBegin
  \/ ResolveStatic
  \/ ResolveLock
  \/ ResolveService
  \/ ResolveLookup
  \/ GatherSpawn
  \/ \E i \in 1..Len(tasks) : TaskRequest(i)
  \/ ProcessExit
  \/ \E i \in 1..Len(tasks) : TaskResponse(i)
  \/ \E i \in 1..Len(tasks) : TaskForward(i)
  \/ \E i \in 1..Len(tasks) : TaskReturn(i)
  \/ GatherReturn

Spec == Init /\ [][Next]_vars

\* the discovery lifecycle next to target resolution: Start, Stop and the
\* watcher, with GetAllURLs called directly
InitLifecycle ==
  /\ URLs \in SeqsUpTo({StaticCred}, MaxStatic)
  /\ KubernetesServices \in {<<>>, <<SvcA>>, <<SvcBad>>}
  /\ MonitorPods \in BOOLEAN
  /\ BearerToken = ""
  /\ TLSConfigOK = TRUE
  /\ dns \in [{"svc1"} -> Answers]
  /\ CanonicalDNS(KubernetesServices, dns)
  /\ InitState

NextLifecycle ==
  \/ StartCall
  \/ StopCall
  \/ StopReturn
  \/ WatcherLock
  \/ WatcherRegister
  \/ WatcherExit
  \/ CallGetAllURLs
  \/ ResolveStatic
  \/ ResolveLock
  \/ ResolveService
  \/ ResolveLookup

\* the scheduler runs the watcher goroutine and the goroutine blocked in Stop
\* whenever they can take a step
FairSpec ==
  /\ InitLifecycle
  /\ [][NextLifecycle]_vars
  /\ WF_vars(WatcherRegister)
  /\ WF_vars(WatcherExit)
  /\ WF_vars(StopReturn)

\* target resolution alone: GetAllURLs called directly, the watcher running
InitResolve ==
  /\ URLs \in SeqsUpTo({StaticCred, StaticBad}, MaxStatic)
  /\ KubernetesServices \in SeqsUpTo({SvcA, SvcB, SvcBad}, MaxServices)
  /\ MonitorPods = TRUE
  /\ BearerToken = ""
  /\ TLSConfigOK = TRUE
  /\ dns \in [ServiceHosts -> Answers]
  /\ CanonicalDNS(KubernetesServices, dns)
  /\ InitState

NextResolve ==
  \/ StartCall
  \/ WatcherLock
  \/ WatcherRegister
  \/ CallGetAllURLs
  \/ ResolveStatic
  \/ ResolveLock
  \/ ResolveService
  \/ ResolveLookup

SpecResolve == InitResolve /\ [][NextResolve]_vars

\* target resolution repeated: a caller compares two calls of GetAllURLs
InitRepeat ==
  /\ URLs \in SeqsUpTo({StaticCred}, MaxStatic)
  /\ KubernetesServices \in SeqsUpTo({SvcA, SvcB, SvcBad}, MaxServices)
  /\ MonitorPods = TRUE
  /\ BearerToken = ""
  /\ TLSConfigOK = TRUE
  /\ dns \in [ServiceHosts -> Answers]
  /\ CanonicalDNS(KubernetesServices, dns)
  /\ InitState

NextRepeat ==
  \/ StartCall
  \/ WatcherLock
  \/ WatcherRegister
  \/ CallGetAllURLs
  \/ CallGetAllURLsAgain
  \/ ResolveStatic
  \/ ResolveLock
  \/ ResolveService
  \/ ResolveLookup

SpecRepeat == InitRepeat /\ [][NextRepeat]_vars

\* ------------------------------------------------------------------ claims
\* the URL a target's OriginalURL was parsed from, before any task wrote to it
OrigParsed(id) ==
  IF id[1] = "static" THEN URLParse(URLs[id[2]])
  ELSE IF id[1] = "svc" THEN URLParse(KubernetesServices[id[2]])
  ELSE PodURL

ErrorsOf(i) == {e \in accErrors : e.task = i}
MetricsOf(i) == {r \in accMetrics : r.task = i}

\* C1: Stop called while the cancel function is unset (no Start, or Start
\* with MonitorPods = false) is a no-op: it returns without a panic and
\* leaves the plugin state unchanged.
StopWithoutStartIsNoOp ==
  [][(StopCall /\ cancel = "nil") =>
       (panic' = "none" /\ pc' = "idle" /\ UNCHANGED <<plugin, heap, resolver, fanout>>)]_vars

\* C2: in a Gather cycle every target whose scrape succeeded has each of its
\* metrics in the accumulator and no error, every target whose scrape failed
\* has exactly one non-nil error, and no task is ever stopped by a sibling's
\* failure: a task that has not finished can still run.
CycleDeliversAll ==
  \A i \in 1..Len(tasks) :
    LET t == tasks[i]
    IN /\ (t.st = "done" /\ t.err.kind = "nil") =>
            /\ ErrorsOf(i) = {}
            /\ \A k \in 1..Len(t.body) :
                 Cardinality({r \in MetricsOf(i) : r.k = k /\ r.name = t.body[k].name}) = 1
       /\ (t.st = "done" /\ t.err.kind # "nil") =>
            /\ ErrorsOf(i) = {[task |-> i, err |-> t.err]}
            /\ MetricsOf(i) = {}
       /\ t.st \in {"running", "requested", "forwarding"} => Alive

\* the goroutine of a task has ended: gatherURL returned and its result went
\* to AddError, or gatherURL panicked and the goroutine was unwound
TaskFinished(t) == t.st \in {"done", "panicked"}

\* C3: Gather is a join barrier: when Gather has returned nil one task was
\* started for every resolved target, in order, and every task has finished;
\* outside Gather no task of the cycle is still able to call the accumulator.
GatherIsJoinBarrier ==
  /\ gatherRet = "nil" =>
       /\ Len(tasks) = Len(allURLs)
       /\ \A i \in 1..Len(tasks) : tasks[i].u = allURLs[i] /\ TaskFinished(tasks[i])
       /\ gwg = 0
  /\ frame # "Gather" => \A i \in 1..Len(tasks) : TaskFinished(tasks[i])

\* a cycle has returned from Gather with one task failed and one delivered
GatherReturnedAfterTasks ==
  /\ gatherRet = "nil"
  /\ Len(tasks) = 2
  /\ accMetrics # {}
  /\ accErrors # {}

\* C4: whenever GetAllURLs returned no error, Gather returns nil, however
\* many targets failed; a scrape failure never becomes Gather's return value.
GatherReturnsNilWhenResolved ==
  /\ (resolveErr = "nil" /\ frame # "Gather") => gatherRet = "nil"
  /\ gatherRet \in {"none", "nil", "tls", "parse"}

\* Gather has returned nil although every target of the cycle failed
GatherReturnedWithAllFailed ==
  /\ gatherRet = "nil"
  /\ frame # "Gather"
  /\ Len(tasks) = 2
  /\ \A i \in 1..Len(tasks) : ErrorsOf(i) # {}

\* C5: GetAllURLs never holds p.lock while the DNS lookup of a service
\* hostname is in progress.
NoLockDuringLookup == pc = "dns" => lock # "resolver"

\* C6: with no service and no dynamic target, GetAllURLs returns no error and
\* exactly one target for each static URL that parses, none for one that does
\* not: the length is N minus the number of unparsable strings.
StaticOnlyLength ==
  /\ KubernetesServices = <<>> => resolveErr # "parse"
  /\ (resolveErr = "nil" /\ KubernetesServices = <<>> /\ kubernetesPods = <<>>) =>
       /\ Len(allURLs) = Len(URLs) - Cardinality({i \in 1..Len(URLs) : ~URLParse(URLs[i]).ok})
       /\ \A i \in 1..Len(URLs) :
            Cardinality({n \in 1..Len(allURLs) : allURLs[n].URL = StaticId(i)})
              = IF URLParse(URLs[i]).ok THEN 1 ELSE 0
       /\ \A n \in 1..Len(allURLs) :
            /\ allURLs[n].OriginalURL = allURLs[n].URL
            /\ heap[allURLs[n].URL] = URLParse(URLs[allURLs[n].URL[2]])

\* GetAllURLs has returned for a static list with an unparsable URL before a
\* parsable one
StaticListWithBadURLResolved ==
  /\ resolveErr = "nil"
  /\ KubernetesServices = <<>>
  /\ kubernetesPods = <<>>
  /\ URLs = <<StaticBad, StaticCred>>
  /\ Len(allURLs) = 1

\* C7: a service URL whose hostname resolves to k addresses yields exactly k
\* targets, one per address: Address is the address, the URL's host is the
\* address with scheme, path, query and port of the service URL, and
\* OriginalURL is the unresolved service URL.
ServiceExpansion ==
  resolveErr = "nil" =>
    \A j \in 1..Len(KubernetesServices) :
      LET su == URLParse(KubernetesServices[j])
          answer == LookupHost(Hostname(su))
          mine == {n \in 1..Len(allURLs) : allURLs[n].OriginalURL = SvcId(j)}
      IN ~answer.err =>
           /\ Cardinality(mine) = Len(answer.addrs)
           /\ \A a \in 1..Len(answer.addrs) :
                \E n \in mine :
                  LET r == heap[allURLs[n].URL]
                  IN /\ allURLs[n].Address = answer.addrs[a]
                     /\ r.Host = IF Port(su) = "" THEN <<answer.addrs[a]>>
                                 ELSE <<answer.addrs[a], ":", Port(su)>>
                     /\ r.Scheme = su.Scheme
                     /\ r.Path = su.Path
                     /\ r.RawQuery = su.RawQuery
                     /\ heap[allURLs[n].OriginalURL] = su

\* a service with a port, a path and a query has been resolved to two addresses
ServiceResolvedToTwo ==
  /\ resolveErr = "nil"
  /\ \E j \in 1..Len(KubernetesServices) :
       /\ KubernetesServices[j] = SvcA
       /\ Cardinality({n \in 1..Len(allURLs) : allURLs[n].OriginalURL = SvcId(j)}) = 2

\* the targets GetAllURLs is to return for the static list and the services
ExpectedStatic ==
  LET idx == SelectSeq([i \in 1..Len(URLs) |-> i], LAMBDA i : URLParse(URLs[i]).ok)
  IN [n \in 1..Len(idx) |-> StaticTarget(idx[n])]
ExpectedServices ==
  LET f[j \in 0..Len(KubernetesServices)] ==
        IF j = 0 THEN <<>>
        ELSE LET answer == LookupHost(Hostname(URLParse(KubernetesServices[j])))
             IN f[j - 1] \o (IF answer.err THEN <<>> ELSE ServiceTargets(j, answer.addrs))
  IN f[Len(KubernetesServices)]
SomeLookupFails ==
  \E j \in 1..Len(KubernetesServices) :
    LookupHost(Hostname(URLParse(KubernetesServices[j]))).err

\* C8: a DNS failure skips only that service: GetAllURLs returns an error only
\* for a malformed service URL, and when a lookup failed its result is still
\* the static targets, the dynamic targets copied under the lock and the
\* targets of every other service, before and after the failing one.
LookupFailureSkipsOnlyThatService ==
  /\ resolveErr = "parse" =>
       \E j \in 1..Len(KubernetesServices) : ~URLParse(KubernetesServices[j]).ok
  /\ (resolveErr = "nil" /\ SomeLookupFails) =>
       \E p \in 0..Len(kubernetesPods) :
         allURLs = ExpectedStatic \o SubSeq(kubernetesPods, 1, p) \o ExpectedServices

\* the lookup of the middle one of three services failed; a static target, a
\* dynamic target and the targets of the services around it were returned
MiddleServiceLookupFailed ==
  /\ resolveErr = "nil"
  /\ KubernetesServices = <<SvcA, SvcB, SvcA>>
  /\ dns["svc2"].err
  /\ Len(dns["svc1"].addrs) >= 1
  /\ \E n \in 1..Len(allURLs) : allURLs[n].URL = StaticId(1)
  /\ \E n \in 1..Len(allURLs) : allURLs[n].URL = PodURLId(1)
  /\ \E n \in 1..Len(allURLs) : allURLs[n].OriginalURL = SvcId(1)
  /\ \E n \in 1..Len(allURLs) : allURLs[n].OriginalURL = SvcId(3)

\* C9: when the TLS configuration cannot be constructed, Gather returns that
\* error at once: no target is resolved, no task is started, the accumulator
\* is not called and the client stays absent.
TLSFailureFailsCycle ==
  ~TLSConfigOK =>
    /\ ~client
    /\ gatherRet \in {"none", "tls"}
    /\ frame = "none"
    /\ resolveErr = "none"
    /\ allURLs = <<>>
    /\ tasks = <<>>
    /\ accMetrics = {}
    /\ accErrors = {}

\* Gather has returned the TLS error with targets configured
GatherFailedOnTLS ==
  /\ gatherRet = "tls"
  /\ ~TLSConfigOK
  /\ URLs # <<>>

\* the OriginalURL object as a task finds it: for a static target it is the
\* URL object, whose empty path gatherURL has defaulted
OriginalAtForward(u) ==
  LET o == OrigParsed(u.OriginalURL)
  IN IF u.URL = u.OriginalURL /\ o.Scheme # "unix" /\ o.Path = <<>>
     THEN [o EXCEPT !.Path = <<"/metrics">>]
     ELSE o

\* C10: for a target whose original URL carries credentials every
\* forwarded metric's url tag is the original URL with the credentials
\* removed, and holds no user or password.
UrlTagIsOriginalWithoutCredentials ==
  \A r \in accMetrics :
    LET u == tasks[r.task].u
        o == OrigParsed(u.OriginalURL)
    IN o.User # "" =>
         /\ r.tags["url"] = URLString([o EXCEPT !.User = ""])
         /\ \A n \in 1..Len(r.tags["url"]) : r.tags["url"][n] \notin UserTokens

\* C11: the tags of a forwarded metric are layered: the parser's tags first,
\* then url and address, then the target's extra tags.  An extra tag named
\* url or address replaces the reserved value, and any other extra tag
\* replaces a parser tag of the same name.
ExtraTagsOverlayReserved ==
  \A r \in accMetrics :
    LET u == tasks[r.task].u
        m == tasks[r.task].body[r.k]
        reserved == IF u.Address # "" THEN {"url", "address"} ELSE {"url"}
    IN /\ DOMAIN r.tags = DOMAIN m.tags \cup reserved \cup DOMAIN u.Tags
       /\ \A key \in DOMAIN u.Tags : r.tags[key] = u.Tags[key]
       /\ "url" \notin DOMAIN u.Tags =>
            r.tags["url"] = URLString([OriginalAtForward(u) EXCEPT !.User = ""])
       /\ (u.Address # "" /\ "address" \notin DOMAIN u.Tags) =>
            r.tags["address"] = <<u.Address>>
       /\ \A key \in DOMAIN m.tags \ (reserved \cup DOMAIN u.Tags) :
            r.tags[key] = m.tags[key]

\* a discovered target whose tags hold url and address has forwarded a
\* metric whose parser tags hold pod_name: all three are the target's
ExtraTagsOverrodeReservedAndParsed ==
  \E r \in accMetrics :
    LET u == tasks[r.task].u
        m == tasks[r.task].body[r.k]
    IN /\ {"url", "address", "pod_name"} \subseteq DOMAIN u.Tags
       /\ u.Address # ""
       /\ "pod_name" \in DOMAIN m.tags
       /\ m.tags["pod_name"] # u.Tags["pod_name"]
       /\ r.tags["url"] = u.Tags["url"]
       /\ r.tags["url"] # URLString(OriginalAtForward(u))
       /\ r.tags["address"] = u.Tags["address"]
       /\ r.tags["address"] # <<u.Address>>
       /\ r.tags["pod_name"] = u.Tags["pod_name"]

\* the sink a metric of each kind belongs to
SinkOfKind ==
  [Counter |-> "AddCounter", Gauge |-> "AddGauge", Summary |-> "AddSummary",
   Histogram |-> "AddHistogram", Untyped |-> "AddFields"]

\* C12: each parsed metric of a successful scrape is forwarded exactly once,
\* to the sink of its kind: when gatherURL has returned nil the accumulator
\* holds one call per parsed metric, in the sink of that metric's kind with
\* that metric's name, and while the loop runs it holds one call for each
\* metric already passed and none for the others.
EachMetricToItsSinkOnce ==
  \A i \in 1..Len(tasks) :
    LET t == tasks[i]
        forwarded == IF t.st = "done" /\ t.err.kind = "nil" THEN Len(t.body) ELSE t.k
    IN t.st \in {"forwarding", "done"} =>
         /\ Cardinality(MetricsOf(i)) = forwarded
         /\ \A k \in 1..forwarded :
              \E r \in MetricsOf(i) :
                /\ r.k = k
                /\ r.name = t.body[k].name
                /\ r.sink = SinkOfKind[t.body[k].kind]

\* two scrapes have returned nil, one with a counter and one with a
\* histogram and an untyped metric, and each metric is in its own sink
TypedAndUntypedForwarded ==
  /\ \A i \in 1..Len(tasks) : tasks[i].st = "done" /\ tasks[i].err.kind = "nil"
  /\ {"AddCounter", "AddHistogram", "AddFields"} \subseteq {r.sink : r \in accMetrics}
  /\ Cardinality(accMetrics) = 3

\* Stop has signalled the cancellation and has returned
StopReturned == cancel = "cancelled" /\ pc # "stopping"

\* C13: after a Start that enabled discovery, Stop signals the cancellation
\* and returns only when the watcher has exited: whenever Stop has returned
\* the watcher is not running and its completion count is zero, and a Stop
\* that is waiting eventually returns.
StopWaitsForWatcher ==
  /\ [](StopReturned => (watcher = "exited" /\ wg = 0))
  /\ ((pc = "stopping") ~> (pc = "idle" /\ watcher = "exited"))

\* Stop has returned after a watcher that had registered a target and that
\* was started by this plugin
StopReturnedAfterWatcherRan ==
  /\ StopReturned
  /\ MonitorPods
  /\ watcher = "exited"
  /\ kubernetesPods # <<>>

\* two lists hold the same elements the same number of times
Occurrences(s, x) == Cardinality({n \in 1..Len(s) : s[n] = x})
SameMultiset(a, b) ==
  \A x \in {a[n] : n \in 1..Len(a)} \cup {b[n] : n \in 1..Len(b)} :
    Occurrences(a, x) = Occurrences(b, x)

\* C14: two calls of GetAllURLs with the same static list, service list and
\* DNS answers (fixed in a behaviour) that copied the same dynamic targets
\* return the same outcome and lists equal as multisets of targets read
\* through their pointers: the first call leaves nothing behind that changes
\* what the second returns.
RepeatedResolutionAgrees ==
  (results # <<>> /\ pc = "idle" /\ results[1].pods = LastResult.pods) =>
     /\ results[1].err = LastResult.err
     /\ SameMultiset(results[1].urls, LastResult.urls)

\* two calls have returned lists of a static target, a discovered target and
\* a service resolved to two addresses
ResolvedTwiceWithAllSources ==
  /\ results # <<>>
  /\ pc = "idle"
  /\ results[1].pods = LastResult.pods
  /\ LastResult.pods # <<>>
  /\ LastResult.err = "nil"
  /\ Len(LastResult.urls) >= 4
  /\ \E n, m \in 1..Len(LastResult.urls) :
       /\ LastResult.urls[n].OriginalURL = URLParse(SvcA)
       /\ LastResult.urls[m].OriginalURL = URLParse(SvcA)
       /\ LastResult.urls[n].Address # LastResult.urls[m].Address

\* the object whose User a task has assigned: the one behind OriginalURL,
\* once the task has forwarded a metric
UserStripped(i) == IF tasks[i].k >= 1 THEN {tasks[i].u.OriginalURL} ELSE {}

\* the path default writes only through the task's own URL pointer: no other
\* task holds that pointer, nor strips the object behind it
PathDefaultIsPrivate ==
  \A i, j \in 1..Len(tasks) :
    i # j => /\ tasks[i].u.URL # tasks[j].u.URL
             /\ tasks[i].u.URL \notin UserStripped(j)

\* C15: the scrape tasks of a cycle, which run unordered, write disjoint sets
\* of URL objects: no object is written by two tasks, neither by the
\* credential strip of OriginalURL nor by the path default of URL.
TasksWriteDisjointObjects ==
  /\ PathDefaultIsPrivate
  /\ \A i, j \in 1..Len(tasks) :
       i # j => UserStripped(i) \cap UserStripped(j) = {}

\* a configured service URL does not parse
SomeServiceMalformed ==
  \E j \in 1..Len(KubernetesServices) : ~URLParse(KubernetesServices[j]).ok

\* C16: a malformed service URL fails the cycle: GetAllURLs returns the parse
\* error and no list, Gather returns that error, and with such a service
\* configured no scrape task is ever started and the accumulator is never
\* called, whatever static and dynamic targets there are.
MalformedServiceFailsCycle ==
  /\ resolveErr = "parse" =>
       /\ allURLs = <<>>
       /\ frame = "none"
       /\ gatherRet = "parse"
  /\ SomeServiceMalformed =>
       /\ resolveErr \in {"none", "parse"}
       /\ gatherRet \in {"none", "tls", "parse"}
       /\ tasks = <<>>
       /\ accMetrics = {}
       /\ accErrors = {}

\* Gather has returned the parse error of a service although a static URL
\* parses and a discovered target is registered
GatherFailedOnMalformedService ==
  /\ gatherRet = "parse"
  /\ resolveErr = "parse"
  /\ Len(StaticIndexes(URLs)) >= 1
  /\ kubernetesPods # <<>>
  /\ client

\* the URL texts that name a target: its request URL and its original URL
NamesOf(u) == {URLString(heap[u.URL]), URLString(heap[u.OriginalURL])}

\* C17: every error a failed scrape reports names its target: whatever the
\* kind of the failure (bearer-token read, transport, status, body read,
\* parse) the message carries the target's URL.
EveryScrapeErrorNamesTarget ==
  \A e \in accErrors : e.err.url \in NamesOf(tasks[e.task].u)

\* the status codes of the success class
Success2xx == 200..299

\* C18 as stated: a scrape that received a response is rejected on its
\* status exactly when the status is outside 200..299.
RejectedIffNot2xx ==
  \A i \in 1..Len(tasks) :
    tasks[i].status # 0 =>
      (tasks[i].err.kind = "status" <=> tasks[i].status \notin Success2xx)

\* C18 amended: a scrape that received a response is rejected on its status
\* exactly when the status is not 200.  A rejected scrape returns an error
\* that names the target and the status and forwards no metric; after a 200
\* the body is read and parsed, so the only errors left are those of the
\* read and of the parse.
RejectedIffNot200 ==
  \A i \in 1..Len(tasks) :
    LET t == tasks[i]
    IN t.status # 0 =>
         /\ t.err.kind = "status" <=> t.status # 200
         /\ t.err.kind = "status" =>
              /\ t.err.status = t.status
              /\ t.err.url = URLString(heap[t.u.URL])
              /\ t.body = <<>>
              /\ MetricsOf(i) = {}
              /\ ErrorsOf(i) = {[task |-> i, err |-> t.err]}
         /\ t.status = 200 => t.err.kind \in {"nil", "body", "parse"}

\* one scrape was rejected for its status 204 and another, answered 200, has
\* forwarded its metrics
Rejected204Forwarded200 ==
  \E i, j \in 1..Len(tasks) :
    /\ tasks[i].status = 204
    /\ tasks[i].err.kind = "status"
    /\ tasks[j].status = 200
    /\ tasks[j].st = "done"
    /\ MetricsOf(j) # {}

\* C19: the shared HTTP client is built lazily and at most once: the number
\* of clients built is one when the client is present and zero when it is
\* absent, a Gather that finds the client present goes on with it and builds
\* nothing, a Gather whose construction fails leaves the client absent, and
\* the Gather after a failed one builds the client when the construction
\* succeeds.
ClientBuiltAtMostOnce ==
  /\ [](clientsBuilt = (IF client THEN 1 ELSE 0))
  /\ [](gatherRet = "tls" => ~client)
  /\ [][(GatherBegin /\ client) =>
          (client' /\ clientsBuilt' = clientsBuilt /\ frame' = "Gather")]_vars
  /\ [][(GatherBegin /\ ~client /\ ~TLSConfigOK) =>
          (~client' /\ clientsBuilt' = 0 /\ gatherRet' = "tls")]_vars
  /\ [][(GatherBegin /\ gatherRet = "tls" /\ TLSConfigOK) =>
          (client' /\ clientsBuilt' = 1 /\ frame' = "Gather")]_vars

\* a cycle has begun with the client of an earlier cycle: the discovered
\* target's URL carries the path an earlier scrape defaulted, no task of this
\* cycle exists yet, and one client was built in all
ClientReusedByLaterCycle ==
  /\ frame = "Gather"
  /\ tasks = <<>>
  /\ client
  /\ clientsBuilt = 1
  /\ PodURLId(1) \in DOMAIN heap
  /\ heap[PodURLId(1)].Path = <<"/metrics">>

\* a call of GetAllURLs is between its Lock and its return
ResolverInCriticalSection == pc \in {"services", "dns"}

\* C20: GetAllURLs releases the lock on every exit path: the resolver holds
\* the lock only between the Lock of a call in progress and that call's
\* return, so it is not held once the call has returned, with a list or with
\* the error of a malformed service, nor while scrape tasks exist.
LockReleasedOnEveryReturn ==
  /\ lock = "resolver" => ResolverInCriticalSection
  /\ resolveErr # "none" => lock # "resolver"
  /\ tasks # <<>> => lock # "resolver"

\* after a resolution that failed on a malformed service the watcher has
\* taken the lock
WatcherLockedAfterFailedResolution ==
  /\ resolveErr = "parse"
  /\ gatherRet = "parse"
  /\ lock = "watcher"

====
